---------------------------- MODULE Spec2Model ----------------------------
(***************************************************************************)
(* Model of tyme's Timeline engine (src/tyme/timeline.py): the per-day log *)
(* of activity intervals, the activity catalog, and the operations start,  *)
(* done, recent_activities, current_activity, new_activity, activity_id    *)
(* and activity_path.                                                      *)
(*                                                                         *)
(* Representation                                                          *)
(*   - a Python dict with string keys and a fixed set of keys (one log     *)
(*     entry) is a TLA+ function whose DOMAIN is the set of keys present,  *)
(*     so `"end" in entry` is `"end" \in DOMAIN entry`;                    *)
(*   - self.timeline (dict day -> list) is a function from date strings to *)
(*     sequences; the code only ever walks it through sorted(keys);        *)
(*   - self.activities (insertion-ordered dict name -> (uuid, children))   *)
(*     is a sequence of triples <<name, id, children>>;                    *)
(*   - a string that may hold "/" is the sequence of its "/"-separated     *)
(*     pieces, i.e. the value of str.split("/"): "/a/b" is <<"","a","b">>; *)
(*   - Optional[T] is a sequence: None is << >>, a value v is <<v>>;       *)
(*   - a timestamp string "YYYY-MM-DDTtt" is the tuple <<Y, M, D, tt>>, a  *)
(*     date string the tuple <<Y, M, D>>; Python compares such zero-padded *)
(*     strings lexicographically, as StrGreater compares the tuples.       *)
(***************************************************************************)
EXTENDS Integers, Sequences, FiniteSets, TLC

VARIABLES
    timeline,    \* self.timeline
    activities,  \* self.activities
    nextId,      \* the next fresh uuid4 (uuids are modelled as 1, 2, 3, ...)
    last,        \* the last call: its name, arguments, the clock readings it
                 \* made, its outcome ("ok" or the exception) and return value
    pre          \* self.timeline and self.activities as they were before it

vars == <<timeline, activities, nextId, last, pre>>

(***************************************************************************)
(* Bounds of the model.                                                    *)
(***************************************************************************)
MaxEntries == 2       \* SpecLog: start may not make the log hold more real entries
MaxLongEntries == 3   \* SpecLong: the same, the clock read at day granularity
MaxMixEntries == 1    \* Spec: the same, new_activity interleaved
MaxTime == 1          \* times of day are 0..MaxTime
MaxN == 2             \* recent_activities is asked for 0..MaxN activities
MaxIds == 3           \* SpecCat: new_activity is called while fewer uuids were drawn
MaxMixIds == 2        \* Spec: the same, start and done interleaved

None == << >>
Some(v) == <<v>>

(***************************************************************************)
(* tyme.utils: the clock and the timestamp conversions.  A Timestamp is    *)
(* [ord, tod]: the day of the year 2024 (1 = Jan 1) and the time of day.   *)
(***************************************************************************)
Year == 2024
MonthLen == <<31, 29, 31>>

RECURSIVE MonthOfFrom(_, _)
MonthOfFrom(ord, m) ==
    IF ord <= MonthLen[m] THEN m ELSE MonthOfFrom(ord - MonthLen[m], m + 1)

RECURSIVE DayOfFrom(_, _)
DayOfFrom(ord, m) ==
    IF ord <= MonthLen[m] THEN ord ELSE DayOfFrom(ord - MonthLen[m], m + 1)

\* timestamp.datetime.month and timestamp.datetime.day
MonthOf(ord) == MonthOfFrom(ord, 1)
DayOfMonth(ord) == DayOfFrom(ord, 1)

RECURSIVE OrdOf(_, _)
OrdOf(m, d) == IF m = 1 THEN d ELSE MonthLen[m - 1] + OrdOf(m - 1, d)

\* Timestamp.date_str and Timestamp.datetime_str
date_str(ts) == <<Year, MonthOf(ts.ord), DayOfMonth(ts.ord)>>
datetime_str(ts) == <<Year, MonthOf(ts.ord), DayOfMonth(ts.ord), ts.tod>>

\* utils.parse: a datetime string back to a Timestamp
parse(s) == [ord |-> OrdOf(s[2], s[3]), tod |-> s[4]]

\* utils.offset_day: the date string of the day days_offset days later
offset_day(ts, days_offset) == date_str([ord |-> ts.ord + days_offset, tod |-> ts.tod])

\* Python's > on two date strings (lexicographic)
StrGreater(a, b) ==
    \/ a[1] > b[1]
    \/ a[1] = b[1] /\ a[2] > b[2]
    \/ a[1] = b[1] /\ a[2] = b[2] /\ a[3] > b[3]

\* The readings of the clock: Jan 29, 30, 31 and Feb 1 2024, in any order (the
\* system clock may be set back between two readings); the time of day is
\* told apart on Jan 30 only.
ClockDays == {29, 30, 31, 32}
utc_now == {ts \in [ord : ClockDays, tod : 0..MaxTime] : ts.tod = 0 \/ ts.ord = 30}
\* the readings of Jan 30 and Jan 31 at time of day 0
utc_coarse == {ts \in utc_now : ts.tod = 0 /\ ts.ord \in {30, 31}}

(***************************************************************************)
(* The log.                                                                *)
(***************************************************************************)
\* sorted(self.timeline.keys())[-1]
LastDay(tl) == CHOOSE k \in DOMAIN tl : \A j \in DOMAIN tl : ~StrGreater(j, k)

\* sorted(keys, reverse=True) as a sequence
RECURSIVE SortedDesc(_)
SortedDesc(S) ==
    IF S = {} THEN << >>
    ELSE LET m == CHOOSE k \in S : \A j \in S : ~StrGreater(j, k)
         IN  <<m>> \o SortedDesc(S \ {m})

\* entry["end"] = v
SetEnd(e, v) == [k \in DOMAIN e \cup {"end"} |-> IF k = "end" THEN v ELSE e[k]]

\* the entry appended by start
NewEntry(id, name, ts) == [id |-> id, name |-> name, start |-> datetime_str(ts)]

\* the entry done writes for each day after the first
Fragment(e, endstr) ==
    [id |-> e.id, name |-> e.name, start |-> e.start, end |-> endstr, previous |-> ""]

\* current_activity looking at the first entry of the last day
current_activity_head(tl) ==
    IF tl = << >> THEN None
    ELSE LET last_activity == tl[LastDay(tl)][1]
         IN  IF "end" \in DOMAIN last_activity THEN None ELSE Some(last_activity)

\* Timeline.current_activity
current_activity(tl) ==
    IF tl = << >> THEN None
    ELSE LET bucket == tl[LastDay(tl)]
             last_activity == bucket[Len(bucket)]
         IN  IF "end" \in DOMAIN last_activity THEN None ELSE Some(last_activity)

\* the offsets of the days after the first, counted on the calendar
FillOffsets_calendar(start_ts, end_ts) ==
    IF date_str(start_ts) # date_str(end_ts)
    THEN 1 .. (end_ts.ord - start_ts.ord)
    ELSE {}

\* range(1, num_days + 1)
FillOffsets(start_ts, end_ts) ==
    IF date_str(start_ts) # date_str(end_ts)
    THEN 1 .. (DayOfMonth(end_ts.ord) - DayOfMonth(start_ts.ord))
    ELSE {}

\* Timeline.done where utc_now() returns `now`: the log it leaves, the clock
\* readings it made, how it ends ("ok" or the exception raised) and what it
\* returns.
done(tl, now) ==
    IF tl = << >> \/ tl[LastDay(tl)] = << >>
    THEN [timeline |-> tl, reads |-> << >>, outcome |-> "IndexError", ret |-> None]
    ELSE LET day == LastDay(tl)
             bucket == tl[day]
             last_activity == bucket[Len(bucket)]
             start_timestamp == parse(last_activity.start)
             end_timestamp == now
             closed == SetEnd(last_activity, datetime_str(end_timestamp))
             tl1 == [tl EXCEPT ![day] = [bucket EXCEPT ![Len(bucket)] = closed]]
             days == {offset_day(start_timestamp, o) :
                         o \in FillOffsets(start_timestamp, end_timestamp)}
             tl2 == [d \in DOMAIN tl1 \cup days |->
                        IF d \in days
                        THEN <<Fragment(closed, datetime_str(end_timestamp))>>
                        ELSE tl1[d]]
         IN  IF StrGreater(date_str(start_timestamp), date_str(end_timestamp))
             THEN [timeline |-> tl1, reads |-> <<now>>,
                   outcome |-> "TimelineError", ret |-> None]
             ELSE [timeline |-> tl2, reads |-> <<now>>, outcome |-> "ok",
                   ret |-> Some(<<start_timestamp, end_timestamp, last_activity.name>>)]

\* Timeline.recent_activities: the loop over sorted(keys, reverse=True) and over
\* each day's list, from position (di, ei) with `num` left to collect; acc is
\* the defaultdict built so far, as the sequence of its <<day, list>> items in
\* insertion order.
RECURSIVE RecentScan(_, _, _, _, _, _)
RecentScan(tl, days, di, ei, num, acc) ==
    IF di > Len(days) THEN acc
    ELSE IF ei > Len(tl[days[di]]) THEN RecentScan(tl, days, di + 1, 1, num, acc)
    ELSE LET day == days[di]
             activity == tl[day][ei]
         IN  IF "previous" \in DOMAIN activity
             THEN RecentScan(tl, days, di, ei + 1, num, acc)
             ELSE LET acc1 == IF acc # << >> /\ acc[Len(acc)][1] = day
                              THEN [acc EXCEPT ![Len(acc)][2] = Append(@, activity)]
                              ELSE Append(acc, <<day, <<activity>>>>)
                  IN  IF num - 1 = 0 THEN acc1
                      ELSE RecentScan(tl, days, di, ei + 1, num - 1, acc1)

recent_activities(tl, num) == RecentScan(tl, SortedDesc(DOMAIN tl), 1, 1, num, << >>)

(***************************************************************************)
(* The catalog.                                                            *)
(***************************************************************************)
\* the position of key `name` in the dict `category`, 0 when absent
KeyIndex(category, name) ==
    IF \E i \in 1..Len(category) : category[i][1] = name
    THEN CHOOSE i \in 1..Len(category) : category[i][1] = name
    ELSE 0

\* category[name] = (id, children): a new key goes last, an existing key keeps
\* its place and gets the new value
SetKey(category, name, id, children) ==
    IF KeyIndex(category, name) = 0
    THEN Append(category, <<name, id, children>>)
    ELSE [category EXCEPT ![KeyIndex(category, name)] = <<name, id, children>>]

\* search of activity_id, from item i of `category` on
RECURSIVE SearchId(_, _, _)
SearchId(category, activity, i) ==
    IF i > Len(category) THEN None
    ELSE IF category[i][1] = activity THEN Some(category[i][2])
    ELSE LET potential_id == SearchId(category[i][3], activity, 1)
         IN  IF potential_id # None THEN potential_id
             ELSE SearchId(category, activity, i + 1)

\* Timeline.activity_id
activity_id(cat, activity) == SearchId(cat, activity, 1)

\* a search that looks at all the names of a category before it descends
RECURSIVE SearchPath_level(_, _, _, _)
SearchPath_level(category, path, activity, i) ==
    IF KeyIndex(category, activity) # 0 THEN Some(Append(path, activity))
    ELSE IF i > Len(category) THEN None
    ELSE LET potential_path ==
                 SearchPath_level(category[i][3], Append(path, category[i][1]), activity, 1)
         IN  IF potential_path # None THEN potential_path
             ELSE SearchPath_level(category, path, activity, i + 1)

\* search of activity_path, from item i of `category` on
RECURSIVE SearchPath(_, _, _, _)
SearchPath(category, path, activity, i) ==
    IF i > Len(category) THEN None
    ELSE IF category[i][1] = activity THEN Some(Append(path, activity))
    ELSE LET potential_path ==
                 SearchPath(category[i][3], Append(path, category[i][1]), activity, 1)
         IN  IF potential_path # None THEN potential_path
             ELSE SearchPath(category, path, activity, i + 1)

\* Timeline.activity_path (the empty string "" is the one piece <<"">>)
activity_path(cat, activity) == SearchPath(cat, <<"">>, activity, 1)

\* the insertion without the walk: the new activity lands in `category` itself
InsertWalk_flat(category, path, new_activity, parents, nid) ==
    [ok |-> TRUE, cat |-> SetKey(category, new_activity, nid, << >>), nid |-> nid + 1]

\* The walk of new_activity down `path` from `category`, then the insertion of
\* new_activity; nid is the next uuid.
RECURSIVE InsertWalk(_, _, _, _, _)
InsertWalk(category, path, new_activity, parents, nid) ==
    IF path = << >>
    THEN [ok |-> TRUE, cat |-> SetKey(category, new_activity, nid, << >>), nid |-> nid + 1]
    ELSE LET c == Head(path)
             missing == KeyIndex(category, c) = 0
         IN  IF missing /\ ~parents
             THEN [ok |-> FALSE, cat |-> category, nid |-> nid]
             ELSE LET cat1 == IF missing THEN SetKey(category, c, nid, << >>) ELSE category
                      nid1 == IF missing THEN nid + 1 ELSE nid
                      i == KeyIndex(cat1, c)
                      sub == InsertWalk(cat1[i][3], Tail(path), new_activity, parents, nid1)
                  IN  [ok |-> sub.ok,
                       cat |-> [cat1 EXCEPT ![i][3] = sub.cat],
                       nid |-> sub.nid]

\* the messages of the ValueErrors of new_activity: the two it raises itself,
\* and the one of `*path, new_activity = []`
MalformedPath == "ValueError: malformed absolute activity path"
MissingAncestor == "ValueError: the activity within the path does not exist"
NothingToUnpack == "ValueError: not enough values to unpack"

\* new_activity without the check for empty segments
new_activity_lenient(cat, pieces, parents, nid) ==
    LET activity_path_ == Tail(pieces)
    IN  IF activity_path_ = << >>
        THEN [outcome |-> NothingToUnpack, cat |-> cat, nid |-> nid]
        ELSE LET path == SubSeq(activity_path_, 1, Len(activity_path_) - 1)
                 leaf == activity_path_[Len(activity_path_)]
                 w == InsertWalk(cat, path, leaf, parents, nid)
             IN  IF w.ok THEN [outcome |-> "ok", cat |-> w.cat, nid |-> w.nid]
                 ELSE [outcome |-> MissingAncestor, cat |-> w.cat, nid |-> w.nid]

\* Timeline.new_activity on the string whose split("/") is `pieces`
new_activity(cat, pieces, parents, nid) ==
    LET activity_path_ == Tail(pieces)
    IN  IF \E i \in 1..Len(activity_path_) : activity_path_[i] = ""
        THEN [outcome |-> MalformedPath, cat |-> cat, nid |-> nid]
        ELSE IF activity_path_ = << >>
        THEN [outcome |-> NothingToUnpack, cat |-> cat, nid |-> nid]
        ELSE LET path == SubSeq(activity_path_, 1, Len(activity_path_) - 1)
                 leaf == activity_path_[Len(activity_path_)]
                 w == InsertWalk(cat, path, leaf, parents, nid)
             IN  IF w.ok THEN [outcome |-> "ok", cat |-> w.cat, nid |-> w.nid]
                 ELSE [outcome |-> MissingAncestor, cat |-> w.cat, nid |-> w.nid]

\* start without the check of the activity's name: an uncatalogued name is
\* logged under no uuid (0)
start_unchecked(tl, cat, activity, now1, now2) ==
    LET aid == activity_id(cat, activity)
        d == IF current_activity(tl) # None THEN done(tl, now1)
             ELSE [timeline |-> tl, reads |-> << >>, outcome |-> "ok", ret |-> None]
        key == date_str(now2)
        tl1 == IF key \in DOMAIN d.timeline THEN d.timeline
               ELSE d.timeline @@ (key :> << >>)
        tl2 == [tl1 EXCEPT ![key] =
                   Append(@, NewEntry(IF aid = None THEN 0 ELSE aid[1], activity, now2))]
    IN  IF d.outcome # "ok"
        THEN [timeline |-> d.timeline, reads |-> d.reads,
              outcome |-> d.outcome, ret |-> None]
        ELSE [timeline |-> tl2, reads |-> Append(d.reads, now2),
              outcome |-> "ok", ret |-> d.ret]

(***************************************************************************)
(* Timeline.start where utc_now() returns now1 to the done it calls and    *)
(* now2 to start itself: the log it leaves, the clock readings it made,    *)
(* how it ends and what it returns.                                        *)
(***************************************************************************)
start(tl, cat, activity, now1, now2) ==
    LET aid == activity_id(cat, activity)
    IN  IF aid = None
        THEN [timeline |-> tl, reads |-> << >>, outcome |-> "TimelineError", ret |-> None]
        ELSE LET d == IF current_activity(tl) # None THEN done(tl, now1)
                      ELSE [timeline |-> tl, reads |-> << >>, outcome |-> "ok", ret |-> None]
                 start_timestamp == now2
                 key == date_str(start_timestamp)
                 tl1 == IF key \in DOMAIN d.timeline THEN d.timeline
                        ELSE d.timeline @@ (key :> << >>)
                 tl2 == [tl1 EXCEPT ![key] =
                            Append(@, NewEntry(aid[1], activity, start_timestamp))]
             IN  IF d.outcome # "ok"
                 THEN [timeline |-> d.timeline, reads |-> d.reads,
                       outcome |-> d.outcome, ret |-> None]
                 ELSE [timeline |-> tl2, reads |-> Append(d.reads, now2),
                       outcome |-> "ok", ret |-> d.ret]

(***************************************************************************)
(* The inputs of the calls.                                                *)
(***************************************************************************)
Names == {"a", "b"}
Pieces == {"", "a", "b"}
Strings == UNION {[1..n -> Pieces] : n \in 1..3}
\* the strings that start with "/"
AbsoluteStrings == {s \in Strings : s[1] = ""}

\* the entries of the log that are not continuation fragments
RealEntries(tl) ==
    {<<d, i>> \in UNION {{d} \X (1..Len(tl[d])) : d \in DOMAIN tl} :
        "previous" \notin DOMAIN tl[d][i]}

Snapshot == [timeline |-> timeline, activities |-> activities]

Init ==
    /\ timeline = << >>
    /\ activities = << >>
    /\ nextId = 1
    /\ last = [op |-> "init", arg |-> << >>, reads |-> << >>, outcome |-> "ok",
               ret |-> None]
    /\ pre = [timeline |-> << >>, activities |-> << >>]

Start(activity, now1, now2, bound) ==
    /\ current_activity(timeline) = None => now1 = now2
    /\ \E r \in {start(timeline, activities, activity, now1, now2)} :
           /\ Cardinality(RealEntries(r.timeline)) <= bound
           /\ timeline' = r.timeline
           /\ last' = [op |-> "start", arg |-> <<activity>>, reads |-> r.reads,
                       outcome |-> r.outcome, ret |-> r.ret]
    /\ pre' = Snapshot
    /\ UNCHANGED <<activities, nextId>>

Done(now) ==
    /\ \E r \in {done(timeline, now)} :
           /\ timeline' = r.timeline
           /\ last' = [op |-> "done", arg |-> << >>, reads |-> r.reads,
                       outcome |-> r.outcome, ret |-> r.ret]
    /\ pre' = Snapshot
    /\ UNCHANGED <<activities, nextId>>

Recent(num) ==
    /\ last' = [op |-> "recent_activities", arg |-> <<num>>, reads |-> << >>,
                outcome |-> "ok", ret |-> Some(recent_activities(timeline, num))]
    /\ pre' = Snapshot
    /\ UNCHANGED <<timeline, activities, nextId>>

NewActivity(pieces, parents, bound) ==
    /\ nextId <= bound
    /\ \E r \in {new_activity(activities, pieces, parents, nextId)} :
           /\ activities' = r.cat
           /\ nextId' = r.nid
           /\ last' = [op |-> "new_activity", arg |-> <<pieces, parents>>,
                       reads |-> << >>, outcome |-> r.outcome, ret |-> None]
    /\ pre' = Snapshot
    /\ UNCHANGED timeline

(***************************************************************************)
(* Spec: the whole engine from Timeline.make_empty's state, the clock read *)
(* on Jan 30 and Jan 31 at time of day 0 only, new_activity called with    *)
(* strings that start with "/".                                            *)
(***************************************************************************)
Next ==
    \/ \E activity \in Names, now1, now2 \in utc_coarse :
           Start(activity, now1, now2, MaxMixEntries)
    \/ \E now \in utc_coarse : Done(now)
    \/ \E num \in 0..MaxN : Recent(num)
    \/ \E pieces \in AbsoluteStrings, parents \in BOOLEAN :
           NewActivity(pieces, parents, MaxMixIds)

Spec == Init /\ [][Next]_vars

(***************************************************************************)
(* SpecLog: the log operations over a loaded catalog, /a (uuid 1) with the *)
(* child /a/b (uuid 2); start is asked for "b" and for "c", which names no *)
(* activity.                                                               *)
(***************************************************************************)
LoadedCatalog == << <<"a", 1, << <<"b", 2, << >> >> >> >> >>
LogNames == {"b", "c"}

InitLog ==
    /\ timeline = << >>
    /\ activities = LoadedCatalog
    /\ nextId = 3
    /\ last = [op |-> "init", arg |-> << >>, reads |-> << >>, outcome |-> "ok",
               ret |-> None]
    /\ pre = [timeline |-> << >>, activities |-> LoadedCatalog]

NextLog ==
    \/ \E activity \in LogNames, now1, now2 \in utc_now :
           Start(activity, now1, now2, MaxEntries)
    \/ \E now \in utc_now : Done(now)
    \/ \E num \in 0..MaxN : Recent(num)

SpecLog == InitLog /\ [][NextLog]_vars

(***************************************************************************)
(* SpecLong: the log operations over the loaded catalog on longer logs,    *)
(* the clock read on Jan 30 and Jan 31 at time of day 0 only.              *)
(***************************************************************************)
NextLong ==
    \/ \E activity \in Names, now1, now2 \in utc_coarse :
           Start(activity, now1, now2, MaxLongEntries)
    \/ \E now \in utc_coarse : Done(now)
    \/ \E num \in 0..MaxN : Recent(num)

SpecLong == InitLog /\ [][NextLong]_vars

(***************************************************************************)
(* SpecCat: the catalog operations from the empty catalog.                 *)
(***************************************************************************)
NextCat ==
    \E pieces \in Strings, parents \in BOOLEAN : NewActivity(pieces, parents, MaxIds)

SpecCat == Init /\ [][NextCat]_vars

(***************************************************************************)
(* SpecCli: the command line's two options that create an activity, from   *)
(* the empty catalog.  Both options store their value in args.new_activity *)
(* and main calls new_activity(args.new_activity, parents=True) for        *)
(* either; a ValueError is not caught by main, so the program ends before  *)
(* timeline.save() with the catalog as new_activity left it.               *)
(***************************************************************************)
CreateOptions == {"-c", "-p"}

MainCreate(option, pieces, bound) ==
    /\ nextId <= bound
    /\ \E r \in {new_activity(activities, pieces, TRUE, nextId)} :
           /\ activities' = r.cat
           /\ nextId' = r.nid
           /\ last' = [op |-> "main", arg |-> <<pieces, option>>,
                       reads |-> << >>, outcome |-> r.outcome, ret |-> None]
    /\ pre' = Snapshot
    /\ UNCHANGED timeline

NextCli ==
    \E option \in CreateOptions, pieces \in Strings : MainCreate(option, pieces, MaxIds)

SpecCli == Init /\ [][NextCli]_vars

(***************************************************************************)
(* SpecLookup: the catalog operations from the empty catalog together with *)
(* the two lookups by name.                                                *)
(***************************************************************************)
LookupNames == {"a", "b", "c"}

ActivityId(activity) ==
    /\ last' = [op |-> "activity_id", arg |-> <<activity>>, reads |-> << >>,
                outcome |-> "ok", ret |-> activity_id(activities, activity)]
    /\ pre' = Snapshot
    /\ UNCHANGED <<timeline, activities, nextId>>

ActivityPath(activity) ==
    /\ last' = [op |-> "activity_path", arg |-> <<activity>>, reads |-> << >>,
                outcome |-> "ok", ret |-> activity_path(activities, activity)]
    /\ pre' = Snapshot
    /\ UNCHANGED <<timeline, activities, nextId>>

NextLookup ==
    \/ \E pieces \in AbsoluteStrings, parents \in BOOLEAN :
           NewActivity(pieces, parents, MaxIds)
    \/ \E activity \in LookupNames : ActivityId(activity)
    \/ \E activity \in LookupNames : ActivityPath(activity)

SpecLookup == Init /\ [][NextLookup]_vars

(***************************************************************************)
(* SpecMono: the log operations over the loaded catalog under a clock      *)
(* whose readings never decrease.  start and done write every reading they *)
(* make into the log at once (as an entry's end or start), so the latest   *)
(* reading made so far is the greatest stamp of the log and the clock may  *)
(* show any time that is not before it.                                    *)
(***************************************************************************)
MaxMonoEntries == 3

\* the clock showed t1 before t2
Before(t1, t2) == t1.ord < t2.ord \/ (t1.ord = t2.ord /\ t1.tod < t2.tod)

\* the readings of the clock the log records
LogReadings(tl) ==
    UNION {{parse(tl[d][i].start)} \cup
               (IF "end" \in DOMAIN tl[d][i] THEN {parse(tl[d][i].end)} ELSE {}) :
           <<d, i>> \in UNION {{d} \X (1..Len(tl[d])) : d \in DOMAIN tl}}

\* the readings the clock can give after those of the log
utc_later(tl) == {now \in utc_now : \A t \in LogReadings(tl) : ~Before(now, t)}

NextMono ==
    \/ \E activity \in Names, now1 \in utc_later(timeline) :
           \E now2 \in {t \in utc_now : ~Before(t, now1)} :
               Start(activity, now1, now2, MaxMonoEntries)
    \/ \E now \in utc_later(timeline) : Done(now)

SpecMono == InitLog /\ [][NextMono]_vars

(***************************************************************************)
(* Vocabulary of the properties.                                           *)
(***************************************************************************)
\* the positions <<day, index>> of the entries of a log
Positions(tl) == UNION {{d} \X (1..Len(tl[d])) : d \in DOMAIN tl}

EntryAt(tl, p) == tl[p[1]][p[2]]

IsOpen(e) == "end" \notin DOMAIN e
IsFragment(e) == "previous" \in DOMAIN e

OpenPositions(tl) == {p \in Positions(tl) : IsOpen(EntryAt(tl, p))}

\* the position current_activity and done look at: the last entry of the last day
LastPosition(tl) == <<LastDay(tl), Len(tl[LastDay(tl)])>>

\* the session is IDLE: no entry of the log lacks an end
Idle(tl) == OpenPositions(tl) = {}

\* Python's > on two datetime strings
StampGreater(a, b) ==
    \/ StrGreater(a, b)
    \/ a[1] = b[1] /\ a[2] = b[2] /\ a[3] = b[3] /\ a[4] > b[4]

\* the date part of a datetime string
DatePart(s) == <<s[1], s[2], s[3]>>

Called(op) == last.op = op
Succeeded(op) == last.op = op /\ last.outcome = "ok"

(***************************************************************************)
(* C1 (as claimed): after every start and done, whatever the clock showed, *)
(* at most one entry of the whole log has no end.                          *)
(* The code breaks it when the clock is set back to an earlier date:       *)
(* start puts the new entry in the bucket of that earlier date, while      *)
(* current_activity and done only look at the last entry of the last day.  *)
(***************************************************************************)
C1_AtMostOneOpen == Cardinality(OpenPositions(timeline)) <= 1

(***************************************************************************)
(* C2 (as claimed): done called while no entry is open ends with a         *)
(* TimelineError and leaves the log as it was.                             *)
(* The code raises IndexError on the empty log, and on a log whose last    *)
(* entry is closed it overwrites that entry's end and returns normally.    *)
(***************************************************************************)
C2_DoneWhileIdleFailsCleanly ==
    (Called("done") /\ Idle(pre.timeline))
        => (last.outcome = "TimelineError" /\ timeline = pre.timeline)

(***************************************************************************)
(* C3 (as claimed): when start succeeds while an entry B was open, B is    *)
(* closed afterwards and B's end is the start of the entry start appended. *)
(* The code reads the clock twice, once in done for B's end and once in    *)
(* start for the new entry, so the two stamps differ when the clock moves  *)
(* between the readings.  It is stated here for the calls during which the *)
(* clock did not run backwards, which is enough to show the difference.    *)
(***************************************************************************)
C3_ImplicitCloseEndsAtNewStart ==
    (/\ Succeeded("start")
     /\ current_activity(pre.timeline) # None
     /\ ~StampGreater(datetime_str(last.reads[1]), datetime_str(last.reads[2])))
        => LET b == EntryAt(timeline, LastPosition(pre.timeline))
               bucket == timeline[date_str(last.reads[2])]
               a == bucket[Len(bucket)]
           IN  /\ ~IsOpen(b)
               /\ IsOpen(a) /\ a.name = last.arg[1]
               /\ b.end = a.start

(***************************************************************************)
(* C4 (as claimed): done called while the open entry's start date is after *)
(* the date the clock shows ends with a TimelineError and leaves the log   *)
(* as it was, the entry still open.                                        *)
(* The code writes the entry's end before it compares the dates, so the    *)
(* entry is closed although done fails.                                    *)
(***************************************************************************)
C4_ClockSkewLeavesLogUnchanged ==
    (/\ Called("done")
     /\ current_activity(pre.timeline) # None
     /\ StrGreater(DatePart(current_activity(pre.timeline)[1].start),
                   date_str(last.reads[1])))
        => (/\ last.outcome = "TimelineError"
            /\ timeline = pre.timeline
            /\ current_activity(timeline) # None)

\* the nodes of a catalog, each as <<path from the root, uuid>>
RECURSIVE NodesUnder(_, _)
NodesUnder(category, path) ==
    UNION {{<<Append(path, category[i][1]), category[i][2]>>}
               \cup NodesUnder(category[i][3], Append(path, category[i][1])) :
           i \in 1..Len(category)}

Nodes(cat) == NodesUnder(cat, << >>)
NodeName(n) == n[1][Len(n[1])]
NodeNames(cat) == {NodeName(n) : n \in Nodes(cat)}
NodeIds(cat) == {n[2] : n \in Nodes(cat)}

\* what identifies an interval: its activity and its start
Interval(e) == <<e.id, e.name, e.start>>
Intervals(tl) == {Interval(EntryAt(tl, p)) : p \in Positions(tl)}

(***************************************************************************)
(* C5: start of a name that no catalog node carries ends with a            *)
(* TimelineError and leaves the log as it was; and every interval of the   *)
(* log either was in the log before the last call, or was appended by a    *)
(* successful start under the uuid and name of a node the catalog held     *)
(* during that call.  By induction over the calls every interval carries   *)
(* a uuid that was a catalog node's when the interval was started.         *)
(***************************************************************************)
C5_OnlyCataloguedActivitiesLogged ==
    /\ (Called("start") /\ last.arg[1] \notin NodeNames(pre.activities))
           => (last.outcome = "TimelineError" /\ timeline = pre.timeline)
    /\ \A p \in Positions(timeline) :
           LET e == EntryAt(timeline, p)
           IN  \/ Interval(e) \in Intervals(pre.timeline)
               \/ /\ Succeeded("start")
                  /\ ~IsFragment(e)
                  /\ e.name = last.arg[1]
                  /\ \E n \in Nodes(pre.activities) : n[2] = e.id /\ NodeName(n) = e.name

\* C5's case: an unknown name was refused while an interval was open, and the
\* log holds an interval whose uuid the catalog has lost since
C5_Witness ==
    /\ Called("start") /\ last.outcome = "TimelineError"
    /\ last.arg[1] \notin NodeNames(activities)
    /\ OpenPositions(timeline) # {}
    /\ \E p \in Positions(timeline) : EntryAt(timeline, p).id \notin NodeIds(activities)

(***************************************************************************)
(* C6 (as claimed): when done closes an interval started on day D on a     *)
(* later day D+k, every day D..D+k has a bucket holding an entry of that   *)
(* activity (uuid and name); the entry of day D is the real one, those of  *)
(* the days D+1..D+k are closed continuation fragments with the original   *)
(* start and the final end.                                                *)
(* The code counts the days as the difference of the days of the month,    *)
(* so from Jan 31 to Feb 1 it writes no fragment and no bucket for Feb 1.  *)
(***************************************************************************)
C6_EveryDayOfSpanHasEntry ==
    (/\ Succeeded("done")
     /\ current_activity(pre.timeline) # None
     /\ last.reads[1].ord > parse(current_activity(pre.timeline)[1].start).ord)
        => LET open == current_activity(pre.timeline)[1]
               first == parse(open.start).ord
               final == datetime_str(last.reads[1])
           IN  \A ord \in first .. last.reads[1].ord :
                   LET key == date_str([ord |-> ord, tod |-> 0])
                   IN  /\ key \in DOMAIN timeline
                       /\ \E i \in 1..Len(timeline[key]) :
                              LET e == timeline[key][i]
                              IN  /\ e.id = open.id /\ e.name = open.name
                                  /\ e.start = open.start
                                  /\ ~IsOpen(e) /\ e.end = final
                                  /\ IsFragment(e) <=> ord > first

\* the lists of a mapping returned by recent_activities, one after the other
RECURSIVE Flatten(_)
Flatten(items) ==
    IF items = << >> THEN << >> ELSE Head(items)[2] \o Flatten(Tail(items))

Returned == Flatten(last.ret[1])

\* the real (non-fragment) entries of the log
RealPositions(tl) == {p \in Positions(tl) : ~IsFragment(EntryAt(tl, p))}

(***************************************************************************)
(* C7 (as claimed): recent_activities(n), n >= 0, returns at most n        *)
(* entries in all and no continuation fragment.                            *)
(* The code counts n down before it compares it with 0, so for n = 0 the   *)
(* count never reaches 0 and every real entry of the log is returned.      *)
(***************************************************************************)
C7_RecentReturnsAtMostN ==
    Called("recent_activities")
        => /\ Len(Returned) <= last.arg[1]
           /\ \A i \in 1..Len(Returned) : ~IsFragment(Returned[i])

\* how many of the entries of a sequence start at stamp t
RECURSIVE CountStart(_, _)
CountStart(entries, t) ==
    IF entries = << >> THEN 0
    ELSE (IF Head(entries).start = t THEN 1 ELSE 0) + CountStart(Tail(entries), t)

\* how many real entries of the log start at stamp t
LogCountStart(tl, t) ==
    Cardinality({p \in RealPositions(tl) : EntryAt(tl, p).start = t})

Stamps(tl) == {EntryAt(tl, p).start : p \in RealPositions(tl)}

Min(a, b) == IF a <= b THEN a ELSE b

(***************************************************************************)
(* C8 (as claimed): recent_activities(n), n >= 1, returns the              *)
(* min(n, number of real entries) real entries that started last: no real  *)
(* entry left out started later than a returned one.                       *)
(* The code walks each day oldest entry first and stops after n, so of the *)
(* newest day it returns the oldest entries and leaves out the newest.     *)
(***************************************************************************)
C8_RecentReturnsTheLatest ==
    (Called("recent_activities") /\ last.arg[1] >= 1)
        => /\ Len(Returned) = Min(last.arg[1], Cardinality(RealPositions(timeline)))
           /\ \A t \in Stamps(timeline) :
                  CountStart(Returned, t) <= LogCountStart(timeline, t)
           /\ \A kept, omitted \in Stamps(timeline) :
                  (/\ CountStart(Returned, kept) > 0
                   /\ CountStart(Returned, omitted) < LogCountStart(timeline, omitted))
                      => ~StampGreater(omitted, kept)

\* s is t with some elements left out, the others in the same order
RECURSIVE IsSubsequence(_, _)
IsSubsequence(s, t) ==
    IF s = << >> THEN TRUE
    ELSE IF t = << >> THEN FALSE
    ELSE IF Head(s) = Head(t) THEN IsSubsequence(Tail(s), Tail(t))
    ELSE IsSubsequence(s, Tail(t))

(***************************************************************************)
(* C9 (as claimed): the mapping recent_activities returns lists its days   *)
(* oldest first, and each day's entries in the order they have in the log. *)
(* The code fills the mapping while it walks the days newest first, so the *)
(* mapping lists the newest day first (stated for n >= 1, apart from what  *)
(* n = 0 returns).                                                         *)
(***************************************************************************)
C9_RecentDaysAscending ==
    (Called("recent_activities") /\ last.arg[1] >= 1)
        => LET items == last.ret[1]
           IN  /\ \A i, j \in 1..Len(items) :
                      i < j => StrGreater(items[j][1], items[i][1])
               /\ \A i \in 1..Len(items) :
                      /\ items[i][1] \in DOMAIN timeline
                      /\ IsSubsequence(items[i][2], timeline[items[i][1]])

(***************************************************************************)
(* C10 (as claimed): new_activity deletes no node and changes no uuid:     *)
(* every node the catalog held before the call is there after it, at the   *)
(* same path and under the same uuid.                                      *)
(* The code assigns category[name] = (fresh uuid, {}) for the last segment *)
(* whether or not the name is already a key, so inserting an existing path *)
(* replaces the node: its uuid changes and its children are dropped.       *)
(***************************************************************************)
C10_NodesNeverDeleted ==
    Called("new_activity") => Nodes(pre.activities) \subseteq Nodes(activities)

\* the last call was a successful new_activity(P, parents=True) of a
\* well-formed absolute path P whose last segment no node carried before
InsertedFreshLeaf ==
    /\ Succeeded("new_activity")
    /\ last.arg[2]
    /\ Head(last.arg[1]) = ""
    /\ last.arg[1][Len(last.arg[1])] \notin NodeNames(pre.activities)

\* activity_path and activity_id of the catalog find the node just inserted
FindsInsertedLeaf ==
    LET P == last.arg[1]
        L == P[Len(P)]
    IN  /\ activity_path(activities, L) = Some(P)
        /\ \E n \in Nodes(activities) :
               /\ n[1] = Tail(P)
               /\ n[2] \notin NodeIds(pre.activities)
               /\ activity_id(activities, L) = Some(n[2])

(***************************************************************************)
(* C11 (as claimed): after a successful new_activity(P, parents=True) of a *)
(* well-formed absolute path P ending in L, where no node was named L      *)
(* before, activity_path(L) is P and activity_id(L) is the uuid of the     *)
(* new leaf.                                                               *)
(* It fails when L also names an earlier segment of P: for "/a/a" on the   *)
(* empty catalog the ancestor /a is created first and is the first match.  *)
(***************************************************************************)
C11_RoundTrip == InsertedFreshLeaf => FindsInsertedLeaf

(***************************************************************************)
(* C11 (amended): the same, for the paths P in which L is no earlier       *)
(* segment.                                                                *)
(***************************************************************************)
C11_RoundTripDistinctLeaf ==
    (/\ InsertedFreshLeaf
     /\ \A i \in 1..(Len(last.arg[1]) - 1) :
            last.arg[1][i] # last.arg[1][Len(last.arg[1])])
        => FindsInsertedLeaf

\* C11's case: "/a/b" or "/b/a" inserted with its ancestor missing
C11_Witness ==
    /\ InsertedFreshLeaf
    /\ Len(last.arg[1]) = 3
    /\ last.arg[1][2] # last.arg[1][3]
    /\ last.arg[1][2] \notin NodeNames(pre.activities)
    /\ FindsInsertedLeaf

\* the segments of the string new_activity was called with
Segments == Tail(last.arg[1])
HasEmptySegment == \E i \in 1..Len(Segments) : Segments[i] = ""

\* some intermediate segment of the path named no node before the call
LacksAncestor ==
    \E k \in 1..(Len(Segments) - 1) :
        SubSeq(Segments, 1, k) \notin {n[1] : n \in Nodes(pre.activities)}

(***************************************************************************)
(* C12: new_activity of a string with an empty segment ends with the       *)
(* "malformed path" ValueError whatever `parents` is, and new_activity     *)
(* with parents=False of a well-formed path one of whose intermediate      *)
(* segments does not exist ends with the "does not exist" ValueError; in   *)
(* both cases the catalog is exactly what it was before the call.          *)
(***************************************************************************)
C12_FailedInsertLeavesCatalog ==
    Called("new_activity")
        => /\ HasEmptySegment
                  => (last.outcome = MalformedPath /\ activities = pre.activities)
           /\ (~HasEmptySegment /\ ~last.arg[2] /\ LacksAncestor)
                  => (last.outcome = MissingAncestor /\ activities = pre.activities)

\* C12's cases: on a catalog that holds nodes, "/x/y" with /x missing was
\* refused with parents=False, or a string with an empty segment next to a
\* missing ancestor was refused with parents=True
C12_Witness ==
    /\ Called("new_activity")
    /\ pre.activities # << >>
    /\ activities = pre.activities
    /\ \/ ~HasEmptySegment /\ ~last.arg[2] /\ LacksAncestor
          /\ last.outcome = MissingAncestor
       \/ HasEmptySegment /\ last.arg[2] /\ Segments[1] \notin NodeNames(pre.activities)
          /\ Segments[1] # "" /\ last.outcome = MalformedPath

\* the entry start appends for activity A at the reading it made last
Appended ==
    LET now == last.reads[Len(last.reads)]
    IN  NewEntry(activity_id(pre.activities, last.arg[1])[1], last.arg[1], now)

(***************************************************************************)
(* C13: under a clock whose readings never decrease, current_activity      *)
(* returns None on the empty log; after every successful start(A) it       *)
(* returns the entry start appended (uuid and name of A, the start stamp   *)
(* read, no end), that entry is the last one of the last day's bucket and  *)
(* the log holds one real entry more than before; after every successful   *)
(* done it returns None; and it returns None exactly when no entry of the  *)
(* log is open.                                                            *)
(***************************************************************************)
C13_SessionStateMachine ==
    /\ timeline = << >> => current_activity(timeline) = None
    /\ Succeeded("start")
           => LET key == date_str(last.reads[Len(last.reads)])
              IN  /\ current_activity(timeline) = Some(Appended)
                  /\ IsOpen(Appended)
                  /\ key = LastDay(timeline)
                  /\ EntryAt(timeline, LastPosition(timeline)) = Appended
                  /\ OpenPositions(timeline) = {LastPosition(timeline)}
                  /\ Cardinality(RealPositions(timeline)) =
                         Cardinality(RealPositions(pre.timeline)) + 1
    /\ Succeeded("done") => current_activity(timeline) = None
    /\ current_activity(timeline) = None <=> Idle(timeline)

\* C13's case: start while an entry of an earlier day was open; the new entry
\* went to a later day's bucket that done had just filled with a fragment
C13_Witness ==
    /\ Succeeded("start")
    /\ current_activity(pre.timeline) # None
    /\ current_activity(timeline) = Some(Appended)
    /\ Len(timeline[LastDay(timeline)]) = 2
    /\ IsFragment(timeline[LastDay(timeline)][1])
    /\ Cardinality(DOMAIN timeline) >= 2

(***************************************************************************)
(* C14 (as claimed): the command line's -c does not create missing         *)
(* ancestors: when -c is given a path one of whose intermediate segments   *)
(* names no node, the catalog is left as it was; only -p creates them.     *)
(* The code gives both options the same destination and main always calls  *)
(* new_activity with parents=True, so -c creates the ancestors as -p does. *)
(***************************************************************************)
C14_PlainCreateKeepsAncestors ==
    (Called("main") /\ last.arg[2] = "-c" /\ LacksAncestor)
        => activities = pre.activities

\* the entry done closes (the last one of the last day), when it started and
\* the days of the fragments the day-of-month difference gives
ToClose == EntryAt(pre.timeline, LastPosition(pre.timeline))
DayDifference == DayOfMonth(last.reads[1].ord) - DayOfMonth(parse(ToClose.start).ord)
FragmentDays == {offset_day(parse(ToClose.start), o) : o \in 1..DayDifference}

\* done returned normally for an entry that started on another date than the
\* one the clock showed
ClosedOnAnotherDate ==
    /\ Succeeded("done")
    /\ DatePart(ToClose.start) # date_str(last.reads[1])

C15_WitnessMonthEnd ==
    /\ ClosedOnAnotherDate
    /\ IsOpen(ToClose)
    /\ DayDifference < 0
    /\ date_str(last.reads[1]) \notin DOMAIN timeline

C16_StartReturnsClosedInterval ==
    Succeeded("start")
        => /\ last.ret = None <=> Idle(pre.timeline)
           /\ last.ret # None
                  => \E p \in OpenPositions(pre.timeline) :
                         /\ ~IsOpen(EntryAt(timeline, p))
                         /\ last.ret[1] = <<parse(EntryAt(pre.timeline, p).start),
                                            parse(EntryAt(timeline, p).end),
                                            EntryAt(pre.timeline, p).name>>

\* the nodes of a catalog as <<path, uuid>>, each node before its children,
\* the children in the order of their insertion
RECURSIVE PreOrder(_, _)
PreOrder(category, path) ==
    IF category = << >> THEN << >>
    ELSE LET name == Head(category)[1]
         IN  <<<<Append(path, name), Head(category)[2]>>>>
                 \o PreOrder(Head(category)[3], Append(path, name))
                 \o PreOrder(Tail(category), path)

\* the first node of that order that carries the name, if any
FirstNamed(cat, name) ==
    LET order == PreOrder(cat, << >>)
        hits == {i \in 1..Len(order) : NodeName(order[i]) = name}
    IN  IF hits = {} THEN None
        ELSE Some(order[CHOOSE i \in hits : \A j \in hits : i <= j])

\* what the two lookups are to return for a name
ExpectedId(cat, name) ==
    IF FirstNamed(cat, name) = None THEN None ELSE Some(FirstNamed(cat, name)[1][2])
ExpectedPath(cat, name) ==
    IF FirstNamed(cat, name) = None THEN None
    ELSE Some(<<"">> \o FirstNamed(cat, name)[1][1])

(***************************************************************************)
(* C17: for every catalog and every name, activity_id(name) is None iff    *)
(* activity_path(name) is None iff no node carries the name; otherwise     *)
(* activity_id returns the uuid, and activity_path the absolute path, of   *)
(* the first node with that name in the pre-order, insertion-order         *)
(* traversal, also when several nodes share the name.                      *)
(***************************************************************************)
C17_LookupsAgreeOnFirstMatch ==
    /\ \A name \in LookupNames :
           /\ activity_id(activities, name) = None
                  <=> activity_path(activities, name) = None
           /\ activity_id(activities, name) = None
                  <=> name \notin NodeNames(activities)
    /\ Called("activity_id") => last.ret = ExpectedId(activities, last.arg[1])
    /\ Called("activity_path") => last.ret = ExpectedPath(activities, last.arg[1])

\* C17's case: activity_path asked for a name that /a/b and /b share, and it
\* returned "/a/b", the one the traversal meets first
C17_Witness ==
    /\ Called("activity_path")
    /\ Cardinality({n \in Nodes(activities) : NodeName(n) = last.arg[1]}) = 2
    /\ last.ret = Some(<<"", "a", "b">>)
    /\ \E n \in Nodes(activities) : n[1] = <<"b">>

\* entry `after` is entry `before`, but for an end written into an open one
SameButClosed(before, after) ==
    \/ after = before
    \/ /\ IsOpen(before) /\ ~IsOpen(after)
       /\ after = SetEnd(before, after.end)

\* the positions of the log that the last call added
AddedPositions ==
    {p \in Positions(timeline) :
        p[1] \notin DOMAIN pre.timeline \/ p[2] > Len(pre.timeline[p[1]])}

(***************************************************************************)
(* C18 (as claimed): after a successful done or start the catalog is what  *)
(* it was; every bucket of the log is still there and begins with the      *)
(* entries it held, in their order, each unchanged but for the end written *)
(* into an entry that was open; what done added are fragments only, and    *)
(* what start added are fragments and exactly one entry, which is open.    *)
(* The code closes the last entry of the last day whether or not it is     *)
(* open (C2) and assigns a new one-fragment list to each day it fills, so  *)
(* a done on an idle log rewrites the end of a closed entry and replaces   *)
(* the buckets of the days after its start.                                *)
(***************************************************************************)
C18_FrameOfStartAndDone ==
    (Succeeded("done") \/ Succeeded("start"))
        => /\ activities = pre.activities
           /\ DOMAIN pre.timeline \subseteq DOMAIN timeline
           /\ \A d \in DOMAIN pre.timeline \cap DOMAIN timeline :
                  /\ Len(timeline[d]) >= Len(pre.timeline[d])
                  /\ \A i \in 1..Min(Len(timeline[d]), Len(pre.timeline[d])) :
                         SameButClosed(pre.timeline[d][i], timeline[d][i])
           /\ Cardinality({p \in AddedPositions : ~IsFragment(EntryAt(timeline, p))})
                  = (IF Called("start") THEN 1 ELSE 0)
           /\ \A p \in AddedPositions :
                  IsFragment(EntryAt(timeline, p)) \/ IsOpen(EntryAt(timeline, p))

(***************************************************************************)
(* C19 (as claimed): in every state of the log, every real entry lies in   *)
(* the bucket of the date of its start, and every fragment has an end and  *)
(* lies in a bucket whose date is after the date of its start and not      *)
(* after the date of its end.                                              *)
(* The code lets done rewrite the end of the last entry of the last day    *)
(* when nothing is open (C2); when that entry is a fragment and the clock  *)
(* shows an earlier date than the fragment's bucket, the fragment ends     *)
(* before the day it is filed under.                                       *)
(***************************************************************************)
C19_BucketConsistency ==
    \A p \in Positions(timeline) :
        LET e == EntryAt(timeline, p)
        IN  IF IsFragment(e)
            THEN /\ ~IsOpen(e)
                 /\ StrGreater(p[1], DatePart(e.start))
                 /\ ~StrGreater(p[1], DatePart(e.end))
            ELSE p[1] = DatePart(e.start)

====
